---- MODULE Spec2Model ----
(***************************************************************************)
(* Model of the PPM decoder of src/lib.rs: PpmParser and its operations    *)
(* set_channel_limits, set_sync_width, set_minimum_channels,               *)
(* set_max_ppm_time, next_frame and handle_pulse_start.                    *)
(*                                                                         *)
(* PpmTime is u32.  TLC's integers stop at 2^31 - 1, so a u32 is held as   *)
(* two 16-bit limbs [hi, lo] with value hi * 2^16 + lo, and the u32        *)
(* comparisons, additions and subtractions of the source are done on the   *)
(* limbs, with the carry or borrow out of the high limb as the overflow.   *)
(***************************************************************************)
EXTENDS Integers, Sequences, FiniteSets, TLC

VARIABLES
    config,            \* PpmParser.config : ParserConfig
    state,             \* PpmParser.state : ParserState
    last_pulse_start,  \* PpmParser.last_pulse_start
    working_frame,     \* PpmParser.working_frame
    parsed_frame,      \* PpmParser.parsed_frame : Option<PpmFrame>
    width,             \* the local `width` of the last handle_pulse_start
    ret,               \* what the last call returned, when it was next_frame
    op,                \* the last operation called
    event,             \* the branch the last handle_pulse_start took
    panic,             \* "none", or why the program panicked
    edges,             \* number of handle_pulse_start calls so far
    gaps,              \* channel gaps received since the last sync or boundary
    scenario,          \* leading edges that followed the process_pulses scenario
    timestamp,         \* the argument of the last handle_pulse_start call
    unread,            \* complete frames fed since the last next_frame call
    run,               \* the channel gaps fed after a sync gap, defaults in force
    reconfigured       \* a setter was called after the first edge

vars == <<config, state, last_pulse_start, working_frame, parsed_frame, width,
          ret, op, event, panic, edges, gaps, scenario, timestamp, unread,
          run, reconfigured>>

----------------------------------------------------------------------------
(* u32 arithmetic on 16-bit limbs *)

Limb == 2^16

U32(n) == [hi |-> n \div Limb, lo |-> n % Limb]

U32Max == [hi |-> Limb - 1, lo |-> Limb - 1]

Lt(a, b) == a.hi < b.hi \/ (a.hi = b.hi /\ a.lo < b.lo)
Le(a, b) == a = b \/ Lt(a, b)
Gt(a, b) == Lt(b, a)
Ge(a, b) == Le(b, a)

\* a + b modulo 2^32, and whether the u32 addition overflowed
Add(a, b) ==
    LET lo == a.lo + b.lo
        hi == a.hi + b.hi + (lo \div Limb)
    IN  [value |-> [hi |-> hi % Limb, lo |-> lo % Limb], overflow |-> hi >= Limb]

\* a - b modulo 2^32, and whether the u32 subtraction overflowed
Sub(a, b) ==
    LET lo == a.lo - b.lo
        hi == a.hi - b.hi - (IF lo < 0 THEN 1 ELSE 0)
    IN  [value |-> [hi |-> (hi + Limb) % Limb, lo |-> (lo + Limb) % Limb],
         overflow |-> hi < 0]

\* a / 2
Half(a) == [hi |-> a.hi \div 2, lo |-> (a.lo + (a.hi % 2) * Limb) \div 2]

----------------------------------------------------------------------------
(* constants and types of the source *)

MIN_CHAN_VAL == 800
MAX_CHAN_VAL == 2200
MID_CHAN_VAL == (MAX_CHAN_VAL + MIN_CHAN_VAL) \div 2
MIN_SYNC_WIDTH == 4000
MIN_PPM_CHANNELS == 5
MAX_PPM_CHANNELS == 20

None == <<>>
Some(x) == <<x>>

DefaultConfig ==
    [min_chan_value |-> U32(MIN_CHAN_VAL),
     max_chan_value |-> U32(MAX_CHAN_VAL),
     mid_chan_value |-> U32(MID_CHAN_VAL),
     min_sync_width |-> U32(MIN_SYNC_WIDTH),
     min_channels   |-> MIN_PPM_CHANNELS,
     max_ppm_time   |-> U32Max]

NewFrame ==
    [chan_values |-> [i \in 0..(MAX_PPM_CHANNELS - 1) |-> U32(0)],
     chan_count  |-> 0]

\* PpmParser::new
Init ==
    /\ config = DefaultConfig
    /\ working_frame = NewFrame
    /\ parsed_frame = None
    /\ state = "Scanning"
    /\ last_pulse_start = U32(0)
    /\ width = U32(0)
    /\ ret = None
    /\ op = "new"
    /\ event = "none"
    /\ panic = "none"
    /\ edges = 0
    /\ gaps = <<>>
    /\ scenario = 0
    /\ timestamp = U32(0)
    /\ unread = 0
    /\ run = None
    /\ reconfigured = FALSE

----------------------------------------------------------------------------
(* the setters and next_frame *)

\* what an operation other than handle_pulse_start leaves alone
ParserIdle ==
    UNCHANGED <<state, last_pulse_start, working_frame, width, edges, gaps,
                scenario, timestamp, run>>

\* a setter call: it reads no frame, and is noted once edges have been handled
SetterCalled ==
    /\ reconfigured' = (reconfigured \/ edges > 0)
    /\ UNCHANGED unread

\* a call that returns no frame
ReturnsNothing == ret' = None

\* A u32 addition or subtraction that overflows panics in a build with
\* overflow checks and wraps in a build without: both outcomes are possible.
OverflowPanics(overflow) == IF overflow THEN BOOLEAN ELSE {FALSE}

\* set_channel_limits(min, max); (max + min) is a u32 addition
SetChannelLimits(min, max) ==
    LET sum == Add(max, min) IN
    /\ panic = "none"
    /\ op' = "set_channel_limits"
    /\ event' = "none"
    /\ \E panics \in OverflowPanics(sum.overflow) :
         IF panics
         THEN /\ config' = [config EXCEPT !.min_chan_value = min,
                                           !.max_chan_value = max]
              /\ panic' = "overflow"
         ELSE /\ config' = [config EXCEPT !.min_chan_value = min,
                                           !.max_chan_value = max,
                                           !.mid_chan_value = Half(sum.value)]
              /\ panic' = "none"
    /\ ParserIdle
    /\ SetterCalled
    /\ ReturnsNothing
    /\ UNCHANGED parsed_frame

\* set_sync_width(width)
SetSyncWidth(w) ==
    /\ panic = "none"
    /\ op' = "set_sync_width"
    /\ event' = "none"
    /\ config' = [config EXCEPT !.min_sync_width = w]
    /\ ParserIdle
    /\ SetterCalled
    /\ ReturnsNothing
    /\ UNCHANGED <<parsed_frame, panic>>

\* set_minimum_channels(channels)
SetMinimumChannels(channels) ==
    /\ panic = "none"
    /\ op' = "set_minimum_channels"
    /\ event' = "none"
    /\ config' = [config EXCEPT !.min_channels = channels]
    /\ ParserIdle
    /\ SetterCalled
    /\ ReturnsNothing
    /\ UNCHANGED <<parsed_frame, panic>>

\* set_max_ppm_time(value)
SetMaxPpmTime(value) ==
    /\ panic = "none"
    /\ op' = "set_max_ppm_time"
    /\ event' = "none"
    /\ config' = [config EXCEPT !.max_ppm_time = value]
    /\ ParserIdle
    /\ SetterCalled
    /\ ReturnsNothing
    /\ UNCHANGED <<parsed_frame, panic>>

\* fault: a read that clones the pending frame instead of taking it
take_keeps(opt) == [returned |-> opt, left |-> opt]

\* Option::take: the value returned and the value left behind
take(opt) == [returned |-> opt, left |-> None]

\* next_frame()
NextFrame ==
    /\ panic = "none"
    /\ op' = "next_frame"
    /\ event' = "none"
    /\ LET t == take(parsed_frame)
       IN  ret' = t.returned /\ parsed_frame' = t.left
    /\ ParserIdle
    /\ unread' = 0
    /\ UNCHANGED <<config, panic, reconfigured>>

----------------------------------------------------------------------------
(* handle_pulse_start *)

\* fault: max_ppm_time taken as the last counter value, the wrap counted too
WrappedWidth_modulus(count) ==
    LET d == Sub(config.max_ppm_time, last_pulse_start)
        s == Add(d.value, count)
        t == Add(s.value, U32(1))
    IN  [value |-> t.value, overflow |-> d.overflow \/ s.overflow \/ t.overflow]

\* the else branch of the width computation: (max_ppm_time - last) + count
WrappedWidth(count) ==
    LET d == Sub(config.max_ppm_time, last_pulse_start)
        s == Add(d.value, count)
    IN  [value |-> s.value, overflow |-> d.overflow \/ s.overflow]

\* fault: the width is always count - last_pulse_start, wrapped or not
PulseWidth_no_wrap(count) == Sub(count, last_pulse_start)

\* let width = if count > last_pulse_start { .. } else { .. }
PulseWidth(count) ==
    IF Gt(count, last_pulse_start)
    THEN Sub(count, last_pulse_start)
    ELSE WrappedWidth(count)

\* fault: the channel counter is left as it is
reset_channel_counter_keeps(frame) == frame

\* reset_channel_counter, on a frame
reset_channel_counter(frame) == [frame EXCEPT !.chan_count = 0]

\* the sync threshold tested in state Scanning
ScanningSyncWidth == config.min_sync_width

\* the sync threshold tested in state Synced
SyncedSyncWidth == U32(MIN_SYNC_WIDTH)

\* fault: the upper channel limit is not tested
InChannelLimits_no_upper(w) == Ge(w, config.min_chan_value)

\* width >= min_chan_value && width <= max_chan_value
InChannelLimits(w) == Ge(w, config.min_chan_value) /\ Le(w, config.max_chan_value)

\* fault: a gap of exactly min_sync_width is not taken as the sync
ScanningStep_strict(w) ==
    IF Gt(w, ScanningSyncWidth)
    THEN [state |-> "Synced",
          working_frame |-> reset_channel_counter(working_frame),
          parsed_frame |-> parsed_frame, event |-> "sync", panic |-> "none"]
    ELSE [state |-> "Scanning", working_frame |-> working_frame,
          parsed_frame |-> parsed_frame, event |-> "ignored", panic |-> "none"]

\* ParserState::Scanning => ..
ScanningStep(w) ==
    IF Ge(w, ScanningSyncWidth)
    THEN [state |-> "Synced",
          working_frame |-> reset_channel_counter(working_frame),
          parsed_frame |-> parsed_frame, event |-> "sync", panic |-> "none"]
    ELSE [state |-> "Scanning", working_frame |-> working_frame,
          parsed_frame |-> parsed_frame, event |-> "ignored", panic |-> "none"]

\* fault: a short frame leaves the pending frame in place
BoundaryStep_keeps_pending ==
    IF working_frame.chan_count >= config.min_channels
    THEN [state |-> "Synced",
          working_frame |-> reset_channel_counter(working_frame),
          parsed_frame |-> Some(working_frame), event |-> "publish",
          panic |-> "none"]
    ELSE [state |-> "Synced",
          working_frame |-> reset_channel_counter(working_frame),
          parsed_frame |-> parsed_frame, event |-> "reject", panic |-> "none"]

\* fault: a boundary publishes the working frame however short it is
BoundaryStep_publishes_short ==
    [state |-> "Synced",
     working_frame |-> reset_channel_counter(working_frame),
     parsed_frame |-> Some(working_frame), event |-> "publish",
     panic |-> "none"]

\* fault: a complete frame does not replace a pending frame (first write wins)
BoundaryStep_first_wins ==
    IF working_frame.chan_count >= config.min_channels
    THEN [state |-> "Synced",
          working_frame |-> reset_channel_counter(working_frame),
          parsed_frame |-> IF parsed_frame = None THEN Some(working_frame)
                           ELSE parsed_frame,
          event |-> "publish", panic |-> "none"]
    ELSE [state |-> "Synced",
          working_frame |-> reset_channel_counter(working_frame),
          parsed_frame |-> None, event |-> "reject", panic |-> "none"]

\* Synced, width >= MIN_SYNC_WIDTH: publish or reject, then reset the counter
BoundaryStep ==
    IF working_frame.chan_count >= config.min_channels
    THEN [state |-> "Synced",
          working_frame |-> reset_channel_counter(working_frame),
          parsed_frame |-> Some(working_frame), event |-> "publish",
          panic |-> "none"]
    ELSE [state |-> "Synced",
          working_frame |-> reset_channel_counter(working_frame),
          parsed_frame |-> None, event |-> "reject", panic |-> "none"]

\* fault: the value is stored one slot too far
StoreChannel_shifted(frame, w) ==
    [frame EXCEPT !.chan_values[(frame.chan_count + 1) % MAX_PPM_CHANNELS] = w,
                  !.chan_count = frame.chan_count + 1]

\* chan_values[chan_count as usize] = width; chan_count += 1
StoreChannel(frame, w) ==
    [frame EXCEPT !.chan_values[frame.chan_count] = w,
                  !.chan_count = frame.chan_count + 1]

\* Synced, a gap within the channel limits: the array store is bounds-checked
ChannelStep(w) ==
    IF working_frame.chan_count >= MAX_PPM_CHANNELS
    THEN [state |-> "Synced", working_frame |-> working_frame,
          parsed_frame |-> parsed_frame, event |-> "panic", panic |-> "index"]
    ELSE [state |-> "Synced", working_frame |-> StoreChannel(working_frame, w),
          parsed_frame |-> parsed_frame, event |-> "channel", panic |-> "none"]

\* fault: a corrupt gap drops the frame but the parser stays Synced
CorruptStep_stays_synced ==
    [state |-> "Synced",
     working_frame |-> reset_channel_counter(working_frame),
     parsed_frame |-> parsed_frame, event |-> "corrupt", panic |-> "none"]

\* fault: a corrupt gap also drops the pending frame
CorruptStep_clears_pending ==
    [state |-> "Scanning",
     working_frame |-> reset_channel_counter(working_frame),
     parsed_frame |-> None, event |-> "corrupt", panic |-> "none"]

\* fault: a corrupt gap sends the parser to Scanning with its channels kept
CorruptStep_keeps_count ==
    [state |-> "Scanning", working_frame |-> working_frame,
     parsed_frame |-> parsed_frame, event |-> "corrupt", panic |-> "none"]

\* Synced, a gap outside the channel limits: resynchronize
CorruptStep ==
    [state |-> "Scanning",
     working_frame |-> reset_channel_counter(working_frame),
     parsed_frame |-> parsed_frame, event |-> "corrupt", panic |-> "none"]

\* ParserState::Synced => ..
SyncedStep(w) ==
    IF Ge(w, SyncedSyncWidth) THEN BoundaryStep
    ELSE IF InChannelLimits(w) THEN ChannelStep(w)
    ELSE CorruptStep

\* match self.state { .. }
Dispatch(w) == IF state = "Scanning" THEN ScanningStep(w) ELSE SyncedStep(w)

----------------------------------------------------------------------------
(* observers: they record what was fed to the parser, not what it did *)

\* the channel gaps fed since the gap that last started a frame
GapsAfter(w) ==
    IF state = "Scanning"
    THEN IF Ge(w, ScanningSyncWidth) THEN <<>> ELSE gaps
    ELSE IF Ge(w, SyncedSyncWidth) THEN <<>>
         ELSE IF InChannelLimits(w) THEN Append(gaps, w)
         ELSE gaps

\* the scenario of tests::process_pulses as the specification tells it
TEST_CHAN_COUNT == 16
TEST_RESYNC_WIDTH == 2500
TEST_START_TIME == 100
TEST_SYNC_MARGIN == 10

ScenarioEdges == TEST_CHAN_COUNT + 3

\* the k-th edge: the discarded edge, the sync edge, 16 channel edges, and the
\* closing edge one sync gap after the last of them
ScenarioTime(k) ==
    IF k = 1 THEN TEST_START_TIME
    ELSE IF k <= TEST_CHAN_COUNT + 2
         THEN TEST_START_TIME + TEST_RESYNC_WIDTH + (k - 2) * MID_CHAN_VAL
         ELSE TEST_START_TIME + 2 * TEST_RESYNC_WIDTH + TEST_CHAN_COUNT * MID_CHAN_VAL

\* parser.set_channel_limits(800, 2200).set_sync_width(TEST_RESYNC_WIDTH - 10)
ScenarioConfig ==
    [DefaultConfig EXCEPT !.min_chan_value = U32(800),
                          !.max_chan_value = U32(2200),
                          !.mid_chan_value = U32(1500),
                          !.min_sync_width = U32(TEST_RESYNC_WIDTH - TEST_SYNC_MARGIN)]

ScenarioAfter(count) ==
    IF /\ scenario >= 0
       /\ scenario < ScenarioEdges
       /\ config = ScenarioConfig
       /\ count = U32(ScenarioTime(scenario + 1))
    THEN scenario + 1
    ELSE -1

\* whether the gap `w` completes a frame: a sync gap, while Synced, after at
\* least min_channels channel gaps
CompletesFrame(w) ==
    /\ state = "Synced"
    /\ Ge(w, SyncedSyncWidth)
    /\ Len(gaps) >= config.min_channels

\* the channel gaps fed since a gap of at least MIN_SYNC_WIDTH, while every
\* gap since then was within MIN_CHAN_VAL..MAX_CHAN_VAL and the configuration
\* was the default one; None when the last gaps are not of that form
RunAfter(w) ==
    IF config # DefaultConfig THEN None
    ELSE IF Ge(w, U32(MIN_SYNC_WIDTH)) THEN Some(<<>>)
    ELSE IF run # None /\ Ge(w, U32(MIN_CHAN_VAL)) /\ Le(w, U32(MAX_CHAN_VAL))
         THEN Some(Append(run[1], w))
    ELSE None

----------------------------------------------------------------------------

\* fault: an edge that is ignored while Scanning is not remembered
StartOfPulse_unless_ignored(count) ==
    IF state = "Scanning" /\ Lt(PulseWidth(count).value, ScanningSyncWidth)
    THEN last_pulse_start
    ELSE count

\* self.last_pulse_start = count
StartOfPulse(count) == count

\* handle_pulse_start(count)
HandlePulseStart(count) ==
    LET w == PulseWidth(count)
        r == Dispatch(w.value)
    IN  /\ panic = "none"
        /\ op' = "handle_pulse_start"
        /\ edges' = edges + 1
        /\ scenario' = ScenarioAfter(count)
        /\ timestamp' = count
        /\ \E panics \in OverflowPanics(w.overflow) :
             IF panics
             THEN /\ panic' = "overflow"
                  /\ event' = "panic"
                  /\ UNCHANGED <<width, last_pulse_start, state, working_frame,
                                 parsed_frame, gaps, unread, run>>
             ELSE /\ width' = w.value
                  /\ last_pulse_start' = StartOfPulse(count)
                  /\ state' = r.state
                  /\ working_frame' = r.working_frame
                  /\ parsed_frame' = r.parsed_frame
                  /\ event' = r.event
                  /\ panic' = r.panic
                  /\ gaps' = GapsAfter(w.value)
                  /\ unread' = IF CompletesFrame(w.value) THEN unread + 1
                                ELSE unread
                  /\ run' = RunAfter(w.value)
        /\ ReturnsNothing
        /\ UNCHANGED <<config, reconfigured>>

----------------------------------------------------------------------------
(* the inputs *)

MaxEdges == 5

\* gaps between successive edges, in microseconds
Gaps == {799, 800, 2200, 2201, 3999, 4000}

ChannelLimits == {<<1000, 2000>>}
SyncWidths == {2490, 5000}
MinChannels == {1}

\* the timestamp of an edge `g` microseconds after the last one, on a
\* free-running 32-bit counter
After(g) == Add(last_pulse_start, U32(g)).value

Next ==
    \/ /\ edges < MaxEdges
       /\ \E g \in Gaps : HandlePulseStart(After(g))
    \/ NextFrame
    \/ \E l \in ChannelLimits : SetChannelLimits(U32(l[1]), U32(l[2]))
    \/ \E w \in SyncWidths : SetSyncWidth(U32(w))
    \/ \E n \in MinChannels : SetMinimumChannels(n)

Spec == Init /\ [][Next]_vars

----------------------------------------------------------------------------
(* whole frames: nominal gaps only, long enough to fill the working frame *)

MaxFrameEdges == 23

FrameGaps == {MID_CHAN_VAL, TEST_RESYNC_WIDTH, MIN_SYNC_WIDTH}

FrameNext ==
    \/ /\ edges = 0
       /\ HandlePulseStart(U32(TEST_START_TIME))
    \/ /\ edges > 0
       /\ edges < MaxFrameEdges
       /\ \E g \in FrameGaps : HandlePulseStart(After(g))
    \/ NextFrame
    \/ /\ edges = 0
       /\ SetSyncWidth(U32(TEST_RESYNC_WIDTH - TEST_SYNC_MARGIN))

FrameSpec == Init /\ [][FrameNext]_vars

----------------------------------------------------------------------------
(* timer wrap: edges at chosen timestamps, in any order *)

MaxTimerEdges == 6

\* the timestamp `n` microseconds before the 32-bit counter's last value
BeforeMax(n) == Sub(U32Max, U32(n)).value

\* the edges of tests::overflow_timer, and the edges M - 5 and 10 for each
\* max_ppm_time M
TimerTimes ==
    {BeforeMax(5490), BeforeMax(1490), U32(9), U32(1509), U32(3009), U32(8509),
     U32(19995), U32(65530), BeforeMax(5), U32(10)}

\* a 16-bit timer, a 32-bit timer, and a timer reloaded at 20000
MaxPpmTimes == {U32(65535), U32Max, U32(20000)}

TimerNext ==
    \/ /\ edges < MaxTimerEdges
       /\ \E t \in TimerTimes : HandlePulseStart(t)
    \/ NextFrame
    \/ \E m \in MaxPpmTimes : SetMaxPpmTime(m)
    \/ SetMinimumChannels(3)

TimerSpec == Init /\ [][TimerNext]_vars

----------------------------------------------------------------------------
(* properties *)

\* a step that is a handle_pulse_start call which returned
HandleStep == edges' = edges + 1 /\ panic' = "none"

\* a step that is a next_frame call
NextFrameStep == op' = "next_frame"

\* `opt` holds a frame of `n` channels, each of value `v`
IsUniformFrame(opt, n, v) ==
    /\ opt # None
    /\ opt[1].chan_count = n
    /\ \A i \in 0..(n - 1) : opt[1].chan_values[i] = v

\* `opt` holds a frame whose channels are the gaps `g`, in order
IsFrameOf(opt, g) ==
    /\ opt # None
    /\ opt[1].chan_count = Len(g)
    /\ \A i \in 1..Len(g) : opt[1].chan_values[i - 1] = g[i]

\* C1: in the process_pulses scenario (limits 800..2200, sync width 2490, an
\* edge at 100, one 2500 later, 16 more 1500 apart, a closing edge 2500 after
\* the last) next_frame returns None after every edge before the closing one
\* and a frame of 16 channels of 1500 after the closing edge.
C1_ScenarioYieldsOneFrame ==
    [][/\ (NextFrameStep /\ scenario \in 1..(ScenarioEdges - 1)) => ret' = None
       /\ (NextFrameStep /\ scenario = ScenarioEdges /\ op = "handle_pulse_start")
            => IsUniformFrame(ret', TEST_CHAN_COUNT, U32(MID_CHAN_VAL))]_vars

\* C2: while Synced a gap is treated as a frame boundary (the parser stays
\* Synced with the counter reset) exactly when width >= the configured
\* min_sync_width, and as a channel or corrupt gap exactly when it is below.
C2_SyncedUsesConfiguredSyncWidth ==
    [][(/\ HandleStep
        /\ state = "Synced"
        /\ Gt(config.min_sync_width, config.max_chan_value))
       => IF Ge(width', config.min_sync_width)
          THEN /\ state' = "Synced"
               /\ working_frame'.chan_count = 0
               /\ parsed_frame' \in {None, Some(working_frame)}
          ELSE /\ parsed_frame' = parsed_frame
               /\ \/ state' = "Scanning" /\ working_frame'.chan_count = 0
                  \/ /\ state' = "Synced"
                     /\ working_frame'.chan_count = working_frame.chan_count + 1]_vars

\* C3: when handle_pulse_start sees a boundary while Synced with at least
\* min_channels channels, the pending frame holds exactly the channel gaps
\* received since the previous boundary or sync, in order, and the next_frame
\* call that follows returns that frame and leaves none.
C3_PublishedFrameContent ==
    [][/\ (/\ HandleStep
           /\ state = "Synced"
           /\ Ge(width', SyncedSyncWidth)
           /\ working_frame.chan_count >= config.min_channels)
          => IsFrameOf(parsed_frame', gaps)
       /\ (NextFrameStep /\ event = "publish")
          => ret' = parsed_frame /\ ret' # None /\ parsed_frame' = None]_vars

C3_Witness ==
    /\ op = "next_frame"
    /\ ret # None
    /\ ret[1].chan_count = 2
    /\ ret[1].chan_values[0] = U32(2200)
    /\ ret[1].chan_values[1] = U32(800)

\* C4: the working frame never holds more than MAX_PPM_CHANNELS channels, no
\* published frame does, and handle_pulse_start never fails on an index past
\* the end of chan_values.
C4_CapacityGuarded ==
    /\ working_frame.chan_count <= MAX_PPM_CHANNELS
    /\ parsed_frame # None => parsed_frame[1].chan_count <= MAX_PPM_CHANNELS
    /\ panic # "index"

\* C5: with max_ppm_time at its default, when the 32-bit counter wrapped
\* between two successive edges (the new timestamp is below the last one) the
\* width is the elapsed time (count - last) mod 2^32.
C5_WrapIsTransparent ==
    [][(/\ HandleStep
        /\ config.max_ppm_time = DefaultConfig.max_ppm_time
        /\ Lt(last_pulse_start', last_pulse_start))
       => width' = Sub(last_pulse_start', last_pulse_start).value]_vars

C7_ShortFrameRejected ==
    [][/\ (/\ HandleStep
           /\ state = "Synced"
           /\ Ge(width', SyncedSyncWidth)
           /\ working_frame.chan_count < config.min_channels)
          => /\ parsed_frame' = None
             /\ working_frame'.chan_count = 0
             /\ state' = "Synced"
       /\ (NextFrameStep /\ event = "reject") => ret' = None]_vars

\* a short frame has just been rejected
C7_Witness ==
    /\ op = "handle_pulse_start"
    /\ event = "reject"
    /\ state = "Synced"
    /\ parsed_frame = None
    /\ working_frame.chan_count = 0
    /\ working_frame.chan_values[0] # U32(0)

\* C8: when handle_pulse_start is called while Synced with a width below the
\* sync threshold and outside min_chan_value..max_chan_value, the counter
\* becomes 0, the state becomes Scanning and the pending frame is as it was.
C8_CorruptPulseResyncs ==
    [][(/\ HandleStep
        /\ state = "Synced"
        /\ Lt(width', SyncedSyncWidth)
        /\ (Lt(width', config.min_chan_value) \/ Gt(width', config.max_chan_value)))
       => /\ working_frame'.chan_count = 0
          /\ state' = "Scanning"
          /\ parsed_frame' = parsed_frame]_vars

C8_Witness ==
    /\ op = "handle_pulse_start"
    /\ event = "corrupt"
    /\ state = "Scanning"
    /\ parsed_frame # None
    /\ working_frame.chan_values[0] # U32(0)

\* C9: while Scanning a gap below min_sync_width leaves the state, the working
\* frame and the pending frame as they were, and a gap of at least
\* min_sync_width moves the parser to Synced with the counter at 0.
C9_InitialSync ==
    [][(HandleStep /\ state = "Scanning")
       => IF Lt(width', config.min_sync_width)
          THEN /\ state' = "Scanning"
               /\ working_frame' = working_frame
               /\ parsed_frame' = parsed_frame
          ELSE /\ state' = "Synced"
               /\ working_frame'.chan_count = 0
               /\ parsed_frame' = parsed_frame]_vars

\* the first gap was ignored, the second is the sync
C9_Witness ==
    /\ op = "handle_pulse_start"
    /\ edges = 2
    /\ event = "sync"
    /\ state = "Synced"
    /\ working_frame.chan_count = 0

\* C10: next_frame returns the pending frame and leaves none pending; a second
\* next_frame call right after the first returns None.
C10_DestructiveRead ==
    [][/\ NextFrameStep => ret' = parsed_frame /\ parsed_frame' = None
       /\ (NextFrameStep /\ op = "next_frame") => ret' = None]_vars

C10_Witness ==
    /\ op = "next_frame"
    /\ ret # None
    /\ parsed_frame = None

\* C11: next_frame returns None while no complete frame was fed since
\* construction or since the last next_frame call, and a call makes a frame
\* available only if it is a handle_pulse_start that sees a sync-width gap
\* while Synced with chan_count >= min_channels.
C11_NoFrameBeforeCompletedOne ==
    [][/\ (NextFrameStep /\ unread = 0) => ret' = None
       /\ (parsed_frame' # None /\ parsed_frame' # parsed_frame)
            => /\ op' = "handle_pulse_start"
               /\ state = "Synced"
               /\ Ge(width', SyncedSyncWidth)
               /\ working_frame.chan_count >= config.min_channels]_vars

C11_Witness ==
    /\ op = "handle_pulse_start"
    /\ unread = 1
    /\ parsed_frame # None
    /\ Ge(width, SyncedSyncWidth)

\* C12: at most one unconsumed frame exists: when a second complete frame is
\* fed with no next_frame call since the first, the pending frame is the
\* second one, the next_frame that follows returns it, and a next_frame that
\* follows a next_frame returns None.
C12_LastWriteWins ==
    [][/\ (HandleStep /\ unread >= 1 /\ unread' = unread + 1)
            => IsFrameOf(parsed_frame', gaps)
       /\ (NextFrameStep /\ unread >= 2 /\ parsed_frame # None)
            => ret' = parsed_frame /\ parsed_frame' = None
       /\ (NextFrameStep /\ op = "next_frame") => ret' = None]_vars

C12_Witness ==
    /\ op = "handle_pulse_start"
    /\ unread = 2
    /\ parsed_frame # None
    /\ parsed_frame[1].chan_values[0] = U32(2200)

\* C13: every handle_pulse_start call in state Synced whose width is below the
\* sync threshold and within min_chan_value..max_chan_value (inclusive) stores
\* the width at index chan_count, adds one to chan_count, leaves the other
\* stored values, the state Synced and the pending frame unchanged.
C13_ChannelAppended ==
    [][(/\ edges' = edges + 1
        /\ panic' # "overflow"
        /\ state = "Synced"
        /\ Lt(width', SyncedSyncWidth)
        /\ InChannelLimits(width'))
       => /\ panic' = "none"
          /\ working_frame'.chan_count = working_frame.chan_count + 1
          /\ working_frame'.chan_values =
                [working_frame.chan_values
                    EXCEPT ![working_frame.chan_count] = width']
          /\ state' = "Synced"
          /\ parsed_frame' = parsed_frame]_vars

\* C14: a handle_pulse_start call whose timestamp is not below the last one
\* computes the width timestamp - last_pulse_start; when the two are equal the
\* width is 0 and the edge is a corrupt gap while Synced and is ignored while
\* Scanning, never a sync gap.
C14_NonWrappingWidth ==
    [][/\ (HandleStep /\ Ge(timestamp', last_pulse_start))
            => width' = Sub(timestamp', last_pulse_start).value
       /\ (HandleStep /\ timestamp' = last_pulse_start)
            => /\ width' = U32(0)
               /\ state = "Synced" => event' = "corrupt"
               /\ state = "Scanning" => event' = "ignored"]_vars

\* C15: when last_pulse_start and the timestamp both lie in 0..max_ppm_time
\* (which an unchanged max_ppm_time keeps true of last_pulse_start), the width
\* is computed without u32 underflow or overflow and lies in 0..max_ppm_time.
C15_WidthArithmeticSafe ==
    [][(/\ edges' = edges + 1
        /\ Le(last_pulse_start, config.max_ppm_time)
        /\ Le(timestamp', config.max_ppm_time))
       => /\ panic' # "overflow"
          /\ Le(width', config.max_ppm_time)]_vars

C15_Witness ==
    /\ op = "handle_pulse_start"
    /\ panic = "none"
    /\ config.max_ppm_time = U32(20000)
    /\ timestamp = U32(10)
    /\ width = U32(15)

\* C16: after every handle_pulse_start(t) that returned, whatever the state
\* and the branch taken (ignored, sync, publish, reject, channel, corrupt),
\* last_pulse_start is t.
C16_LastPulseStartUpdated ==
    (op = "handle_pulse_start" /\ panic = "none")
        => /\ last_pulse_start = timestamp
           /\ event \in {"ignored", "sync", "publish", "reject", "channel",
                          "corrupt"}

C16_Witness ==
    /\ op = "handle_pulse_start"
    /\ event = "ignored"
    /\ edges = 3
    /\ state = "Scanning"
    /\ last_pulse_start = timestamp
    /\ timestamp = U32(3 * 3999)

\* C17: with the default configuration, from every reachable state, a gap of at
\* least 4000, then N gaps each within 800..2200 with 5 <= N <= 20, then a gap
\* of at least 4000 ends with a pending frame of N channels whose values are
\* those N gaps in order.
C17_SelfHealing ==
    [][(/\ edges' = edges + 1
        /\ config = DefaultConfig
        /\ run # None
        /\ Len(run[1]) >= MIN_PPM_CHANNELS
        /\ Len(run[1]) <= MAX_PPM_CHANNELS
        /\ Ge(width', U32(MIN_SYNC_WIDTH)))
       => /\ panic' = "none"
          /\ IsFrameOf(parsed_frame', run[1])]_vars

C17_Witness ==
    /\ op = "handle_pulse_start"
    /\ config = DefaultConfig
    /\ run = Some(<<>>)
    /\ parsed_frame # None
    /\ parsed_frame[1].chan_count = MAX_PPM_CHANNELS
    /\ working_frame.chan_count = 0

\* C18: the pending frame is changed only by a boundary seen in state Synced
\* and by next_frame: a corrupt gap, a gap handled while Scanning, an appended
\* channel gap and every setter leave it unchanged, and the next next_frame
\* returns it.
C18_PendingSurvivesResync ==
    [][/\ parsed_frame' # parsed_frame
            => \/ NextFrameStep
               \/ /\ op' = "handle_pulse_start"
                  /\ state = "Synced"
                  /\ Ge(width', SyncedSyncWidth)
       /\ NextFrameStep => ret' = parsed_frame]_vars

C18_Witness ==
    /\ op = "handle_pulse_start"
    /\ event = "ignored"
    /\ state = "Scanning"
    /\ unread = 1
    /\ parsed_frame # None

\* C19: when no setter was called after the first edge, every frame returned
\* by next_frame has min_channels <= chan_count <= MAX_PPM_CHANNELS and each
\* of its first chan_count values within min_chan_value..max_chan_value.
C19_ReturnedFrameWellFormed ==
    (op = "next_frame" /\ ret # None /\ ~reconfigured)
        => /\ ret[1].chan_count >= config.min_channels
           /\ ret[1].chan_count <= MAX_PPM_CHANNELS
           /\ \A i \in 0..(ret[1].chan_count - 1) :
                 /\ Ge(ret[1].chan_values[i], config.min_chan_value)
                 /\ Le(ret[1].chan_values[i], config.max_chan_value)

C19_Witness ==
    /\ op = "next_frame"
    /\ ~reconfigured
    /\ config.min_channels = 1
    /\ ret # None
    /\ ret[1].chan_count = 2
    /\ ret[1].chan_values[0] = U32(800)
    /\ ret[1].chan_values[1] = U32(2200)

\* C20: in every reachable state, state = Scanning implies that the working
\* frame holds no channel (chan_count = 0).
C20_ScanningHoldsNoPartialFrame ==
    state = "Scanning" => working_frame.chan_count = 0

C20_Witness ==
    /\ op = "handle_pulse_start"
    /\ event = "corrupt"
    /\ state = "Scanning"
    /\ Len(gaps) = 2
    /\ working_frame.chan_values[1] # U32(0)
    /\ working_frame.chan_count = 0

====
